---- MODULE Spec2Model ----
(***************************************************************************)
(* Heart Disease Classification API (api/app.py): the model artifact is    *)
(* loaded when the module is imported, then POST /predict and              *)
(* POST /predict/single are served against it.                             *)
(*                                                                         *)
(* Representation.  A JSON object / Python dict is a record                *)
(* [keys, val]: keys is the insertion order, val the mapping.  A pandas    *)
(* DataFrame is [columns, rows]: columns is the column order and each row  *)
(* maps the columns it has a value for; a column missing from a row's      *)
(* domain is a NaN cell.  oldpeak is held in tenths (2.3 is 23) and        *)
(* probabilities in hundredths (0.25 is 25).                               *)
(***************************************************************************)
EXTENDS Integers, Sequences, FiniteSets, TLC

VARIABLES
    pc,         \* "import" | "crashed" | "idle" | "done"
    artifact,   \* what lies at MODEL_PATH
    model,      \* the module-level global `model`
    request,    \* the request being handled
    X,          \* the handler's local DataFrame X when it returned or raised
    calls,      \* the invocations of the scoring capability made by the handler
    response,   \* the HTTP response of the handler
    failed      \* access log: some earlier request was answered 4xx or 5xx

vars == <<pc, artifact, model, request, X, calls, response, failed>>

\* Longest instances list a client sends.
MaxBatch == 2

----------------------------------------------------------------------------
(* Sequences and strings *)

Range(s) == {s[i] : i \in DOMAIN s}

Reverse(s) == [i \in 1..Len(s) |-> s[Len(s) + 1 - i]]

Restrict(f, S) == [k \in S |-> f[k]]

\* The letters of the key names, a = 1 .. z = 26, '_' below every letter as
\* in ASCII ('_' is 95, 'a' is 97).
Letters ==
    [age      |-> <<1, 7, 5>>,
     sex      |-> <<19, 5, 24>>,
     cp       |-> <<3, 16>>,
     trestbps |-> <<20, 18, 5, 19, 20, 2, 16, 19>>,
     chol     |-> <<3, 8, 15, 12>>,
     fbs      |-> <<6, 2, 19>>,
     restecg  |-> <<18, 5, 19, 20, 5, 3, 7>>,
     thalach  |-> <<20, 8, 1, 12, 1, 3, 8>>,
     exang    |-> <<5, 24, 1, 14, 7>>,
     oldpeak  |-> <<15, 12, 4, 16, 5, 1, 11>>,
     slope    |-> <<19, 12, 15, 16, 5>>,
     ca       |-> <<3, 1>>,
     thal     |-> <<20, 8, 1, 12>>,
     patient_id |-> <<16, 1, 20, 9, 5, 14, 20, 0, 9, 4>>]

\* Python's str.__lt__: lexicographic on code points, a proper prefix first.
RECURSIVE SeqLess(_, _)
SeqLess(a, b) ==
    IF b = <<>> THEN FALSE
    ELSE IF a = <<>> THEN TRUE
    ELSE IF Head(a) # Head(b) THEN Head(a) < Head(b)
    ELSE SeqLess(Tail(a), Tail(b))

StrLess(a, b) == SeqLess(Letters[a], Letters[b])

\* sorted(S, reverse=True): the greatest name first.
RECURSIVE sortedDescending(_)
sortedDescending(S) ==
    IF S = {} THEN <<>>
    ELSE LET most == CHOOSE a \in S : \A b \in S \ {a} : StrLess(b, a)
         IN  <<most>> \o sortedDescending(S \ {most})

\* sorted(S) for a set of strings.
RECURSIVE sorted(_)
sorted(S) ==
    IF S = {} THEN <<>>
    ELSE LET least == CHOOSE a \in S : \A b \in S \ {a} : StrLess(a, b)
         IN  <<least>> \o sorted(S \ {least})

----------------------------------------------------------------------------
(* classification_pipeline.FEATURE_NAMES and the PatientFeatures schema *)

FEATURE_NAMES ==
    <<"age", "sex", "cp", "trestbps", "chol", "fbs", "restecg",
      "thalach", "exang", "oldpeak", "slope", "ca", "thal">>

\* Field(..., ge=, le=) of every field of PatientFeatures, in declaration order.
PatientFeatures ==
    [age      |-> [ge |-> 1,   le |-> 120],
     sex      |-> [ge |-> 0,   le |-> 1],
     cp       |-> [ge |-> 0,   le |-> 3],
     trestbps |-> [ge |-> 50,  le |-> 250],
     chol     |-> [ge |-> 100, le |-> 600],
     fbs      |-> [ge |-> 0,   le |-> 1],
     restecg  |-> [ge |-> 0,   le |-> 2],
     thalach  |-> [ge |-> 50,  le |-> 250],
     exang    |-> [ge |-> 0,   le |-> 1],
     oldpeak  |-> [ge |-> 0,   le |-> 100],
     slope    |-> [ge |-> 0,   le |-> 2],
     ca       |-> [ge |-> 0,   le |-> 4],
     thal     |-> [ge |-> 0,   le |-> 3]]

PatientFeaturesFields ==
    <<"age", "sex", "cp", "trestbps", "chol", "fbs", "restecg",
      "thalach", "exang", "oldpeak", "slope", "ca", "thal">>

----------------------------------------------------------------------------
(* Request bodies the clients send *)

\* The documented example record (schema_extra) with an identifier, and a
\* second patient whose age and thal fall on the other side of the
\* classifiers' thresholds.
Patient63 ==
    [age |-> 63, sex |-> 1, cp |-> 3, trestbps |-> 145, chol |-> 233,
     fbs |-> 1, restecg |-> 0, thalach |-> 150, exang |-> 0, oldpeak |-> 23,
     slope |-> 0, ca |-> 0, thal |-> 1, patient_id |-> 7]

Patient29 ==
    [age |-> 29, sex |-> 0, cp |-> 1, trestbps |-> 130, chol |-> 204,
     fbs |-> 0, restecg |-> 0, thalach |-> 202, exang |-> 0, oldpeak |-> 0,
     slope |-> 2, ca |-> 0, thal |-> 3, patient_id |-> 8]

FeatureSet == Range(FEATURE_NAMES)

AllKeys == FeatureSet \cup {"patient_id"}

\* Key orders of a JSON object: the schema order with the identifier first,
\* and its reverse.
SchemaOrder == <<"patient_id">> \o FEATURE_NAMES

KeyOrders == {SchemaOrder, Reverse(SchemaOrder)}

\* The dict with the given keys, inserted in the given order.
Dict(val, order, keys) ==
    LET Has(k) == k \in keys
    IN  [keys |-> SelectSeq(order, Has), val |-> Restrict(val, keys)]

With(val, k, v) == [val EXCEPT ![k] = v]

\* Elements of PredictRequest.instances: complete records with or without an
\* extra key in either key order, records lacking required keys, and a record
\* outside the PatientFeatures bounds.
BatchInstances ==
    {Dict(p, o, ks) : p \in {Patient63, Patient29}, o \in KeyOrders,
                      ks \in {FeatureSet, AllKeys}}
    \cup {Dict(Patient63, SchemaOrder, FeatureSet \ {"thal"}),
          Dict(Patient29, Reverse(SchemaOrder), AllKeys \ {"age", "thal"}),
          Dict(With(Patient63, "age", 150), SchemaOrder, FeatureSet)}

RECURSIVE SeqsUpTo(_, _)
SeqsUpTo(S, n) ==
    IF n = 0 THEN {<<>>}
    ELSE LET shorter == SeqsUpTo(S, n - 1)
         IN  shorter \cup {Append(s, e) : s \in {t \in shorter : Len(t) = n - 1}, e \in S}

Batches == SeqsUpTo(BatchInstances, MaxBatch)

\* Bodies of POST /predict/single: the two patients in either key order with
\* or without the identifier, every field of the example put on and just
\* outside each of its bounds, and every field left out.
SingleBodies ==
    {Dict(p, o, ks) : p \in {Patient63, Patient29}, o \in KeyOrders,
                      ks \in {FeatureSet, AllKeys}}
    \cup UNION {{Dict(With(Patient63, f, v), SchemaOrder, FeatureSet) :
                    v \in {PatientFeatures[f].ge - 1, PatientFeatures[f].ge,
                           PatientFeatures[f].le, PatientFeatures[f].le + 1}} :
                 f \in FeatureSet}
    \cup {Dict(Patient63, SchemaOrder, FeatureSet \ {f}) : f \in FeatureSet}
    \cup {Dict(With(Patient63, "age", 150), SchemaOrder, FeatureSet)}

----------------------------------------------------------------------------
(* pandas *)

\* The columns of pd.DataFrame(list of dicts): the keys in order of first
\* appearance over the rows (the keys of one dict are distinct).
AppendNew(cols, keys) ==
    cols \o SelectSeq(keys, LAMBDA k : k \notin Range(cols))

RECURSIVE UnionColumns(_, _)
UnionColumns(cols, dicts) ==
    IF dicts = <<>> THEN cols
    ELSE UnionColumns(AppendNew(cols, Head(dicts).keys), Tail(dicts))

\* pd.DataFrame(list of dicts): one row per dict; a key a dict lacks is a
\* NaN cell of its row.
DataFrame(dicts) ==
    [columns |-> UnionColumns(<<>>, dicts),
     rows    |-> [i \in 1..Len(dicts) |-> dicts[i].val]]

\* The conversion refusing a value outside the PatientFeatures bounds.
DataFrameRaisesOutOfBounds(dicts) ==
    \E i \in 1..Len(dicts) :
        \E f \in DOMAIN dicts[i].val \cap DOMAIN PatientFeatures :
            \/ dicts[i].val[f] < PatientFeatures[f].ge
            \/ dicts[i].val[f] > PatientFeatures[f].le

\* A list of dicts always converts.
DataFrameRaises(dicts) == FALSE

\* X[cols] raises KeyError when a label of cols is no column of X.
GetItemRaises(df, cols) == ~(Range(cols) \subseteq Range(df.columns))

\* No projection: the frame as it was built, extra columns included.
GetItemEverything(df, cols) == df

\* X[[c for c in X.columns if c in cols]]: the columns of cols in the
\* frame's own order.
GetItemFrameOrder(df, cols) ==
    LET Wanted(c) == c \in Range(cols)
    IN  [columns |-> SelectSeq(df.columns, Wanted),
         rows    |-> [i \in 1..Len(df.rows) |->
                        Restrict(df.rows[i], Range(cols) \cap DOMAIN df.rows[i])]]

\* X[cols]: the columns cols, in the order of cols.
GetItem(df, cols) ==
    [columns |-> cols,
     rows    |-> [i \in 1..Len(df.rows) |->
                    Restrict(df.rows[i], Range(cols) \cap DOMAIN df.rows[i])]]

HasNaN(df) ==
    \E i \in 1..Len(df.rows) : \E c \in Range(df.columns) : c \notin DOMAIN df.rows[i]

NoFrame == [columns |-> <<>>, rows |-> <<>>]

----------------------------------------------------------------------------
(* The scoring capability: the object joblib.load returns.  It is opaque to *)
(* the service, so it ranges over a family of deterministic classifiers:    *)
(* the label of a row is read off the cell at column position col, the     *)
(* probability pair off the label.  A capability may lack predict_proba,    *)
(* may raise from either operation, may or may not impute NaN cells, and    *)
(* (dl, dp) is the number of rows its outputs have beyond those of the     *)
(* table it is given.                                                       *)

NoModel == [loaded |-> FALSE]

AnyCapabilities ==
    [loaded   : {TRUE},
     reads    : {[col |-> 1, thr |-> 50], [col |-> 13, thr |-> 2]},
     p1       : {[l \in 0..1 |-> 20 + 60 * l], [l \in 0..1 |-> 60 - 20 * l]},
     hasProba : BOOLEAN,
     fails    : {"never", "predict", "predict_proba"},
     nanOk    : BOOLEAN,
     dl       : -1..1,
     dp       : -1..1]

\* The capabilities that return one output row per input row.
Capabilities == {m \in AnyCapabilities : m.dl = 0 /\ m.dp = 0}

\* hasattr(model, "predict_proba")
HasPredictProba(m) == m.hasProba

\* seq with d rows more (copies of pad) or fewer.
Resize(seq, d, pad) ==
    IF d < 0 THEN SubSeq(seq, 1, Len(seq) + d)
    ELSE seq \o [i \in 1..d |-> pad]

RowLabel(m, df, i) ==
    LET c == df.columns[m.reads.col]
    IN  IF c \in DOMAIN df.rows[i] /\ df.rows[i][c] >= m.reads.thr THEN 1 ELSE 0

Returned(value) == [raised |-> FALSE, cause |-> "", value |-> value]

Raised(cause) == [raised |-> TRUE, cause |-> cause, value |-> <<>>]

\* model.predict(X)
ModelPredict(m, df) ==
    IF m.fails = "predict" THEN Raised("predict raised")
    ELSE IF m.reads.col > Len(df.columns) THEN Raised("feature count mismatch")
    ELSE IF HasNaN(df) /\ ~m.nanOk THEN Raised("Input contains NaN")
    ELSE Returned(Resize([i \in 1..Len(df.rows) |-> RowLabel(m, df, i)], m.dl, 0))

\* model.predict_proba(X)
ModelPredictProba(m, df) ==
    IF m.fails = "predict_proba" THEN Raised("predict_proba raised")
    ELSE IF m.reads.col > Len(df.columns) THEN Raised("feature count mismatch")
    ELSE IF HasNaN(df) /\ ~m.nanOk THEN Raised("Input contains NaN")
    ELSE Returned(Resize([i \in 1..Len(df.rows) |->
                            <<100 - m.p1[RowLabel(m, df, i)], m.p1[RowLabel(m, df, i)]>>],
                         m.dp, <<50, 50>>))

\* One invocation of the capability: the operation, the table it was given
\* and what came back.
Call(op, df, res) ==
    [op |-> op, table |-> df, raised |-> res.raised, cause |-> res.cause,
     value |-> res.value]

----------------------------------------------------------------------------
(* Responses *)

NoRequest == [endpoint |-> "none"]

NoResponse == [status |-> 0, kind |-> "none"]

HTTPException(status_code, detail, missing, cause) ==
    [status |-> status_code, kind |-> "HTTPException", detail |-> detail,
     missing |-> missing, cause |-> cause]

\* An exception no handler catches: the server answers 500 with a fixed text.
Unhandled(exc) ==
    [status |-> 500, kind |-> "unhandled", detail |-> "Internal Server Error",
     exc |-> exc]

\* The diagnosis string of a label.
Diagnosis(pred) ==
    IF pred = 1 THEN "Heart Disease Detected" ELSE "No Heart Disease"

\* The diagnosis read off the probability of class 1 instead of the label.
PredictionResultByProbability(pred, proba) ==
    [prediction |-> pred, probability |-> proba,
     diagnosis |-> IF proba[2] >= 50 THEN "Heart Disease Detected"
                   ELSE "No Heart Disease"]

PredictionResult(pred, proba) ==
    [prediction |-> pred, probability |-> proba, diagnosis |-> Diagnosis(pred)]

PredictResponse(results) ==
    [status |-> 200, kind |-> "PredictResponse",
     predictions |-> results, count |-> Len(results)]

SingleResponse(result) ==
    [status |-> 200, kind |-> "PredictionResult",
     prediction |-> result.prediction, probability |-> result.probability,
     diagnosis |-> result.diagnosis]

Outcome(df, cs, resp) == [X |-> df, calls |-> cs, response |-> resp]

----------------------------------------------------------------------------
(* POST /predict *)

\* [p, 1 - p]: the pair with its classes swapped.
FallbackProbaSwapped(p) == <<100 * p, 100 * (1 - p)>>

\* [1 - p, p], the probability pair made up for a label when the model has
\* no predict_proba.
FallbackProba(p) == <<100 * (1 - p), 100 * p>>

Scored(preds, probas, cs) ==
    [raised |-> FALSE, cause |-> "", preds |-> preds, probas |-> probas, calls |-> cs]

Failed(cause, cs) ==
    [raised |-> TRUE, cause |-> cause, preds |-> <<>>, probas |-> <<>>, calls |-> cs]

\* The try block with one more attempt at predict after it raised.
PredictTryRetrying(m, df) ==
    LET p  == ModelPredict(m, df)
        c1 == <<Call("predict", df, p)>>
        c0 == IF p.raised THEN c1 \o c1 ELSE c1
    IN  IF p.raised THEN Failed(p.cause, c0)
        ELSE IF HasPredictProba(m)
        THEN LET q  == ModelPredictProba(m, df)
                 c2 == Append(c1, Call("predict_proba", df, q))
             IN  IF q.raised THEN Failed(q.cause, c2)
                 ELSE Scored(p.value, q.value, c2)
        ELSE Scored(p.value,
                    [i \in 1..Len(p.value) |-> FallbackProba(p.value[i])],
                    c1)

\* The try block of predict: the labels, then the probabilities or their
\* fallback.
PredictTry(m, df) ==
    LET p  == ModelPredict(m, df)
        c1 == <<Call("predict", df, p)>>
    IN  IF p.raised THEN Failed(p.cause, c1)
        ELSE IF HasPredictProba(m)
        THEN LET q  == ModelPredictProba(m, df)
                 c2 == Append(c1, Call("predict_proba", df, q))
             IN  IF q.raised THEN Failed(q.cause, c2)
                 ELSE Scored(p.value, q.value, c2)
        ELSE Scored(p.value,
                    [i \in 1..Len(p.value) |-> FallbackProba(p.value[i])],
                    c1)

\* The results appended at the front: the response lists them last row first.
BuildResponseReversed(preds, probas) ==
    IF Len(probas) < Len(preds) THEN Unhandled("IndexError")
    ELSE PredictResponse(Reverse([i \in 1..Len(preds) |->
                                    PredictionResult(preds[i], probas[i])]))

\* The loop that builds the results and the return of predict; probas[i]
\* raises IndexError past the last row of probas, outside every try.
BuildResponse(preds, probas) ==
    IF Len(probas) < Len(preds) THEN Unhandled("IndexError")
    ELSE PredictResponse([i \in 1..Len(preds) |->
                            PredictionResult(preds[i], probas[i])])

\* The emptiness test left out.
NoInstancesUnchecked(instances) == FALSE

\* not request.instances
NoInstances(instances) == instances = <<>>

\* No except clause: the exception leaves the handler.
InferenceErrorUncaught(cause) == Unhandled(cause)

\* The except clause of both handlers: 500 with the exception's text.
InferenceError(cause) ==
    HTTPException(500, "Model prediction failed", <<>>, cause)

\* The handler of POST /predict.
predict(m, instances) ==
    IF NoInstances(instances)
    THEN Outcome(NoFrame, <<>>,
                 HTTPException(400, "No instances provided", <<>>, ""))
    ELSE IF DataFrameRaises(instances)
    THEN Outcome(NoFrame, <<>>,
                 HTTPException(400, "Invalid input format", <<>>, "DataFrame"))
    ELSE
    LET X0      == DataFrame(instances)
        missing == Range(FEATURE_NAMES) \ Range(X0.columns)
    IN  IF missing # {}
        THEN Outcome(X0, <<>>,
                     HTTPException(400, "Missing required columns",
                                   sorted(missing), ""))
        ELSE IF GetItemRaises(X0, FEATURE_NAMES)
        THEN Outcome(X0, <<>>, Unhandled("KeyError"))
        ELSE
        LET X1 == GetItem(X0, FEATURE_NAMES)
            t  == PredictTry(m, X1)
        IN  IF t.raised
            THEN Outcome(X1, t.calls, InferenceError(t.cause))
            ELSE Outcome(X1, t.calls, BuildResponse(t.preds, t.probas))

----------------------------------------------------------------------------
(* POST /predict/single *)

\* Field(..., gt=, lt=): the bounds themselves rejected.
FieldErrorExclusive(body, f) ==
    IF f \notin DOMAIN body.val THEN "value_error.missing"
    ELSE IF body.val[f] <= PatientFeatures[f].ge THEN "value_error.number.not_gt"
    ELSE IF body.val[f] >= PatientFeatures[f].le THEN "value_error.number.not_lt"
    ELSE ""

\* What pydantic reports for one field of PatientFeatures ("" when valid).
FieldError(body, f) ==
    IF f \notin DOMAIN body.val THEN "value_error.missing"
    ELSE IF body.val[f] < PatientFeatures[f].ge THEN "value_error.number.not_ge"
    ELSE IF body.val[f] > PatientFeatures[f].le THEN "value_error.number.not_le"
    ELSE ""

\* The errors of a body against PatientFeatures, in field order.
ValidationErrors(body) ==
    LET Bad(e) == e.type # ""
    IN  SelectSeq([i \in 1..Len(PatientFeaturesFields) |->
                     [loc  |-> PatientFeaturesFields[i],
                      type |-> FieldError(body, PatientFeaturesFields[i])]],
                  Bad)

\* patient.dict(): the declared fields in declaration order; keys the model
\* does not declare were ignored when the body was parsed.
PatientDict(body) ==
    Dict(body.val, PatientFeaturesFields, Range(PatientFeaturesFields))

\* The try block without the predict_proba branch: the pair is always the
\* fallback of the label.
SingleTryFallbackOnly(m, df) ==
    LET p  == ModelPredict(m, df)
        c1 == <<Call("predict", df, p)>>
    IN  IF p.raised THEN Failed(p.cause, c1)
        ELSE IF p.value = <<>> THEN Failed("IndexError", c1)
        ELSE Scored(<<p.value[1]>>, <<FallbackProba(p.value[1])>>, c1)

\* The try block of predict_single: element 0 of the labels, then element 0
\* of the probabilities or the fallback.
SingleTry(m, df) ==
    LET p  == ModelPredict(m, df)
        c1 == <<Call("predict", df, p)>>
    IN  IF p.raised THEN Failed(p.cause, c1)
        ELSE IF p.value = <<>> THEN Failed("IndexError", c1)
        ELSE IF HasPredictProba(m)
        THEN LET q  == ModelPredictProba(m, df)
                 c2 == Append(c1, Call("predict_proba", df, q))
             IN  IF q.raised THEN Failed(q.cause, c2)
                 ELSE IF q.value = <<>> THEN Failed("IndexError", c2)
                 ELSE Scored(<<p.value[1]>>, <<q.value[1]>>, c2)
        ELSE Scored(<<p.value[1]>>, <<FallbackProba(p.value[1])>>, c1)

\* The handler of POST /predict/single, given the validated patient.
predict_single(m, patient) ==
    LET features == PatientDict(patient)
        X0       == DataFrame(<<features>>)
    IN  IF GetItemRaises(X0, FEATURE_NAMES)
        THEN Outcome(X0, <<>>, Unhandled("KeyError"))
        ELSE
        LET X1 == GetItem(X0, FEATURE_NAMES)
            t  == SingleTry(m, X1)
        IN  IF t.raised
            THEN Outcome(X1, t.calls, InferenceError(t.cause))
            ELSE Outcome(X1, t.calls,
                         SingleResponse(PredictionResult(t.preds[1], t.probas[1])))

\* The route: the body is parsed into PatientFeatures first, and the handler
\* runs only when that succeeds.
PostPredictSingle(m, body) ==
    LET errs == ValidationErrors(body)
    IN  IF errs # <<>>
        THEN Outcome(NoFrame, <<>>,
                     [status |-> 422, kind |-> "RequestValidationError",
                      errors |-> errs])
        ELSE predict_single(m, body)

----------------------------------------------------------------------------
(* GET / and GET /health *)

\* A string of the environment is the sequence of its pieces, "@" being a
\* piece of its own.  os.getenv gives None for a variable that is not set.
None == [set |-> FALSE]

Str(pieces) == [set |-> TRUE, value |-> pieces]

\* Values of DATABASE_URL: not set, empty, without "@", with one "@", with
\* two, and ending in "@".
DatabaseUrls ==
    {None, Str(<<>>), Str(<<"postgresql://host/db">>),
     Str(<<"postgresql://user:pw", "@", "host/db">>),
     Str(<<"postgresql://user", "@", "host", "@", "db">>),
     Str(<<"postgresql://user", "@">>)}

\* "@" in s
HasAt(s) == \E i \in 1..Len(s) : s[i] = "@"

\* s.split("@")
RECURSIVE SplitAt(_)
SplitAt(s) ==
    IF s = <<>> THEN << <<>> >>
    ELSE IF Head(s) = "@" THEN << <<>> >> \o SplitAt(Tail(s))
    ELSE LET rest == SplitAt(Tail(s))
         IN  << <<Head(s)>> \o rest[1] >> \o Tail(rest)

\* The url entry taken as split("@")[1] whatever the string holds.
get_database_info_unguarded(database_url) ==
    IF ~database_url.set \/ database_url.value = <<>>
    THEN Returned([type |-> "Not Configured", location |-> "Unknown",
                   error |-> "DATABASE_URL not found in environment"])
    ELSE IF Len(SplitAt(database_url.value)) < 2 THEN Raised("IndexError")
    ELSE Returned([type |-> "PostgreSQL", location |-> "Render Cloud",
                   url |-> SplitAt(database_url.value)[2]])

\* db_utils.get_database_info, given what os.getenv("DATABASE_URL") returns.
get_database_info(database_url) ==
    IF ~database_url.set \/ database_url.value = <<>>
    THEN Returned([type |-> "Not Configured", location |-> "Unknown",
                   error |-> "DATABASE_URL not found in environment"])
    ELSE IF HasAt(database_url.value)
    THEN IF Len(SplitAt(database_url.value)) < 2 THEN Raised("IndexError")
         ELSE Returned([type |-> "PostgreSQL", location |-> "Render Cloud",
                        url |-> SplitAt(database_url.value)[2]])
    ELSE Returned([type |-> "PostgreSQL", location |-> "Render Cloud",
                   url |-> <<"configured">>])

\* dict.get(key, default)
Get(d, key, default) == IF key \in DOMAIN d THEN d[key] ELSE default

MODEL_PATH == "/app/api/models/global_best_model_optuna.pkl"

\* The handler of GET /health.
health(m, database_url) ==
    LET db_info == get_database_info(database_url)
    IN  IF db_info.raised THEN Unhandled(db_info.cause)
        ELSE [status |-> 200, kind |-> "health",
              body |-> [status            |-> "healthy",
                        model_loaded      |-> IF m = NoModel THEN "False" ELSE "True",
                        model_path        |-> MODEL_PATH,
                        database_type     |-> Get(db_info.value, "type", "Unknown"),
                        database_location |-> Get(db_info.value, "location", "Unknown")]]

\* The handler of GET /.
root ==
    [status |-> 200, kind |-> "root",
     body |-> [name |-> "Heart Disease Classification API", version |-> "1.0.0",
               endpoints |-> [health |-> "/health", predict |-> "/predict",
                              docs |-> "/docs"]]]

----------------------------------------------------------------------------
(* The process *)

\* What may lie at MODEL_PATH: nothing, a file that does not unpickle, or a
\* pickled capability.
ArtifactsOf(caps) ==
    {[exists |-> FALSE, loads |-> FALSE, m |-> NoModel],
     [exists |-> TRUE,  loads |-> FALSE, m |-> NoModel]}
    \cup {[exists |-> TRUE, loads |-> TRUE, m |-> c] : c \in caps}

InitWith(caps) ==
    /\ pc = "import"
    /\ artifact \in ArtifactsOf(caps)
    /\ model = NoModel
    /\ request = NoRequest
    /\ X = NoFrame
    /\ calls = <<>>
    /\ response = NoResponse
    /\ failed = FALSE

Init == InitWith(Capabilities)

\* The except clause only printing: the import completes with no model bound.
LoadModelLenient ==
    /\ pc = "import"
    /\ pc' = "idle"
    /\ model' = IF artifact.exists /\ artifact.loads THEN artifact.m ELSE NoModel
    /\ UNCHANGED <<artifact, request, X, calls, response, failed>>

\* Import of api/app.py: load_model(MODEL_PATH), and RuntimeError out of the
\* import when it raises.
LoadModel ==
    /\ pc = "import"
    /\ IF artifact.exists /\ artifact.loads
       THEN pc' = "idle" /\ model' = artifact.m
       ELSE pc' = "crashed" /\ model' = model
    /\ UNCHANGED <<artifact, request, X, calls, response, failed>>

\* The handler rebinding the global: after a request that invoked the
\* capability, model is left as a copy without predict_proba.
HandleRebindingModel(req, out) ==
    /\ pc' = "done"
    /\ request' = req
    /\ X' = out.X
    /\ calls' = out.calls
    /\ response' = out.response
    /\ model' = IF out.calls # <<>> THEN [model EXCEPT !.hasProba = FALSE] ELSE model
    /\ UNCHANGED <<artifact, failed>>

\* The handler unbinding the global when the request ends in an error.
HandleDroppingModel(req, out) ==
    /\ pc' = "done"
    /\ request' = req
    /\ X' = out.X
    /\ calls' = out.calls
    /\ response' = out.response
    /\ model' = IF out.response.status >= 400 THEN NoModel ELSE model
    /\ UNCHANGED <<artifact, failed>>

Handle(req, out) ==
    /\ pc' = "done"
    /\ request' = req
    /\ X' = out.X
    /\ calls' = out.calls
    /\ response' = out.response
    /\ UNCHANGED <<artifact, model, failed>>

Root ==
    /\ pc = "idle"
    /\ Handle([endpoint |-> "/"], Outcome(NoFrame, <<>>, root))

\* DATABASE_URL is read from the environment at each call.
Health ==
    /\ pc = "idle"
    /\ \E database_url \in DatabaseUrls :
         Handle([endpoint |-> "/health", DATABASE_URL |-> database_url],
                Outcome(NoFrame, <<>>, health(model, database_url)))

Predict ==
    /\ pc = "idle"
    /\ \E instances \in Batches :
         Handle([endpoint |-> "/predict", instances |-> instances],
                predict(model, instances))

PredictSingle ==
    /\ pc = "idle"
    /\ \E body \in SingleBodies :
         Handle([endpoint |-> "/predict/single", patient |-> body],
                PostPredictSingle(model, body))

\* The response is sent and the request's objects are dropped.
Reply ==
    /\ pc = "done"
    /\ pc' = "idle"
    /\ request' = NoRequest
    /\ X' = NoFrame
    /\ calls' = <<>>
    /\ response' = NoResponse
    /\ failed' = (failed \/ response.status >= 400)
    /\ UNCHANGED <<artifact, model>>

Next == LoadModel \/ Root \/ Health \/ Predict \/ PredictSingle \/ Reply

Spec == Init /\ [][Next]_vars

\* The same service over capabilities that may break the row-count contract.
InitContract == InitWith(AnyCapabilities)

SpecContract == InitContract /\ [][Next]_vars

----------------------------------------------------------------------------
(* Properties *)

Handled(endpoint) == pc = "done" /\ request.endpoint = endpoint

\* A prediction request has been handled.
Predicting == Handled("/predict") \/ Handled("/predict/single")

\* The feature values instance d supplies.
Supplied(d) == Restrict(d.val, FeatureSet \cap DOMAIN d.val)

\* C1: a successful POST /predict with n >= 1 instances holds exactly n
\* predictions, count is their number, row i of the table the capability was
\* given holds the feature values of instance i, and prediction i is built
\* from the i-th label and the i-th probability pair the capability returned
\* (the fallback pair of that label when it has no predict_proba).
C1_BatchOrderPreserved ==
    (Handled("/predict") /\ response.status = 200) =>
        LET n == Len(request.instances)
        IN  /\ n >= 1
            /\ Len(response.predictions) = n
            /\ response.count = Len(response.predictions)
            /\ calls # <<>>
            /\ Len(calls[1].table.rows) = n
            /\ Len(calls[1].value) = n
            /\ \A i \in 1..n :
                 /\ calls[1].table.rows[i] = Supplied(request.instances[i])
                 /\ response.predictions[i].prediction = calls[1].value[i]
                 /\ response.predictions[i].probability =
                        IF Len(calls) = 2 THEN calls[2].value[i]
                        ELSE <<100 * (1 - calls[1].value[i]), 100 * calls[1].value[i]>>

\* A two-row batch answered with two different labels.
C1_Witness ==
    /\ Handled("/predict")
    /\ response.status = 200
    /\ Len(request.instances) = 2
    /\ response.predictions[1].prediction # response.predictions[2].prediction

\* C2: POST /predict with an empty instances list is answered 400 "No
\* instances provided" and the capability is not invoked.
C2_EmptyBatchRejected ==
    (Handled("/predict") /\ request.instances = <<>>) =>
        /\ response.status = 400
        /\ response.kind = "HTTPException"
        /\ response.detail = "No instances provided"
        /\ calls = <<>>

C2_Witness ==
    /\ Handled("/predict")
    /\ request.instances = <<>>
    /\ response.status = 400

\* The schema names no instance of the batch supplies.
MissingFrom(instances) ==
    {f \in FeatureSet : \A i \in 1..Len(instances) : f \notin DOMAIN instances[i].val}

\* C3: a non-empty batch whose table lacks a schema column is answered 400
\* with exactly the missing names in ascending order, with the table still
\* unprojected and the capability not invoked.
C3_MissingColumnsSorted ==
    (Handled("/predict") /\ request.instances # <<>>
       /\ MissingFrom(request.instances) # {}) =>
        /\ response.status = 400
        /\ response.kind = "HTTPException"
        /\ response.detail = "Missing required columns"
        /\ Range(response.missing) = MissingFrom(request.instances)
        /\ Len(response.missing) = Cardinality(MissingFrom(request.instances))
        /\ \A i, j \in 1..Len(response.missing) :
             i < j => StrLess(response.missing[i], response.missing[j])
        /\ Range(X.columns) = UNION {DOMAIN request.instances[i].val :
                                       i \in 1..Len(request.instances)}
        /\ calls = <<>>

\* A batch with an identifier column and two schema names missing.
C3_Witness ==
    /\ Handled("/predict")
    /\ response.status = 400
    /\ response.missing = <<"age", "thal">>
    /\ "patient_id" \in Range(X.columns)

\* Every required feature is a key of d.
Complete(d) == FeatureSet \subseteq DOMAIN d.val

\* The batch with every key outside the schema taken out of every instance.
StripExtras(instances) ==
    [i \in 1..Len(instances) |->
       Dict(instances[i].val, instances[i].keys,
            FeatureSet \cap DOMAIN instances[i].val)]

NoCallRaised == \A k \in 1..Len(calls) : ~calls[k].raised

\* C4: a batch whose instances all carry every required feature, with or
\* without extra keys, passes normalization; every table the capability gets
\* has exactly the schema columns in schema order and no other cell; the
\* calls and the response are those of the batch without the extra keys; and
\* the response is 200 unless the capability itself raised.
C4_ExtraKeysDropped ==
    (Handled("/predict") /\ request.instances # <<>>
       /\ \A i \in 1..Len(request.instances) : Complete(request.instances[i])) =>
        LET bare == predict(model, StripExtras(request.instances))
        IN  /\ calls # <<>>
            /\ \A k \in 1..Len(calls) :
                 /\ calls[k].table.columns = FEATURE_NAMES
                 /\ \A i \in 1..Len(calls[k].table.rows) :
                      DOMAIN calls[k].table.rows[i] = FeatureSet
            /\ calls = bare.calls
            /\ response = bare.response
            /\ NoCallRaised => response.status = 200

\* A scored batch whose first instance carries patient_id.
C4_Witness ==
    /\ Handled("/predict")
    /\ response.status = 200
    /\ "patient_id" \in DOMAIN request.instances[1].val
    /\ "patient_id" \notin Range(calls[1].table.columns)

\* A key order that is neither the schema's nor its reverse: the even
\* positions of SchemaOrder, then the odd ones.
Interleaved ==
    [i \in 1..Len(SchemaOrder) |->
       IF 2 * i <= Len(SchemaOrder) THEN SchemaOrder[2 * i]
       ELSE SchemaOrder[2 * i - Len(SchemaOrder) - 1]]

PermutedOrders == KeyOrders \cup {Interleaved}

Reordered(d, order) == Dict(d.val, order, DOMAIN d.val)

\* C5: whatever the order of the keys of the instances, the calls made to the
\* capability (tables included) and the response are the same, the tables
\* having their columns in schema order; and a batch already in schema order
\* with exactly the schema keys is handed on as the DataFrame built from it.
\* The same holds of the body of POST /predict/single.
C5_KeyOrderInvariant ==
    /\ (Handled("/predict") /\ calls # <<>>) =>
         /\ \A o \in PermutedOrders :
              LET out == predict(model,
                                 [i \in 1..Len(request.instances) |->
                                    Reordered(request.instances[i], o)])
              IN  out.calls = calls /\ out.response = response
         /\ calls[1].table.columns = FEATURE_NAMES
         /\ (\A i \in 1..Len(request.instances) :
               request.instances[i].keys = FEATURE_NAMES)
              => calls[1].table = DataFrame(request.instances)
    /\ (Handled("/predict/single") /\ calls # <<>>) =>
         /\ \A o \in PermutedOrders :
              LET out == PostPredictSingle(model, Reordered(request.patient, o))
              IN  out.calls = calls /\ out.response = response
         /\ calls[1].table.columns = FEATURE_NAMES

\* A scored batch whose first instance lists its keys in reverse schema order.
C5_Witness ==
    /\ Handled("/predict")
    /\ response.status = 200
    /\ request.instances[1].keys = Reverse(FEATURE_NAMES)
    /\ calls[1].table.columns = FEATURE_NAMES

\* The PredictionResults of the response, batch or single.
Results ==
    IF response.kind = "PredictResponse" THEN response.predictions
    ELSE IF response.kind = "PredictionResult"
    THEN <<[prediction |-> response.prediction,
            probability |-> response.probability,
            diagnosis |-> response.diagnosis]>>
    ELSE <<>>

\* C6: in every result returned by either endpoint the prediction is the
\* label the capability returned for that row, and the diagnosis is "Heart
\* Disease Detected" exactly when that label is 1 and "No Heart Disease"
\* otherwise, whatever the probability pair.
C6_DiagnosisFromLabel ==
    pc = "done" =>
        \A i \in 1..Len(Results) :
            /\ Results[i].prediction = calls[1].value[i]
            /\ Results[i].diagnosis = "Heart Disease Detected"
                 <=> Results[i].prediction = 1
            /\ Results[i].prediction # 1 => Results[i].diagnosis = "No Heart Disease"

\* A result with label 1 whose probability of class 1 is below one half.
C6_Witness ==
    /\ pc = "done"
    /\ \E i \in 1..Len(Results) :
         /\ Results[i].prediction = 1
         /\ Results[i].probability[2] < 50
         /\ Results[i].diagnosis = "Heart Disease Detected"

\* C7: without predict_proba only predict is invoked and every result has
\* the pair (1 - label, label) of its own label; with it, predict_proba is
\* invoked once, after predict and on the same table, and result i carries
\* its i-th pair.
C7_ProbabilityFallback ==
    (Predicting /\ response.status = 200) =>
        IF HasPredictProba(model)
        THEN /\ Len(calls) = 2
             /\ calls[1].op = "predict"
             /\ calls[2].op = "predict_proba"
             /\ calls[2].table = calls[1].table
             /\ \A i \in 1..Len(Results) :
                  Results[i].probability = calls[2].value[i]
        ELSE /\ Len(calls) = 1
             /\ calls[1].op = "predict"
             /\ \A i \in 1..Len(Results) :
                  Results[i].probability =
                      <<100 * (1 - Results[i].prediction), 100 * Results[i].prediction>>

\* A two-row batch scored without predict_proba, its labels 1 and 0.
C7_Witness ==
    /\ Handled("/predict")
    /\ response.status = 200
    /\ ~HasPredictProba(model)
    /\ Len(Results) = 2
    /\ Results[1].probability = <<0, 100>>
    /\ Results[2].probability = <<100, 0>>

\* C8: when predict or predict_proba raises, the request ends with the
\* HTTPException 500 "Model prediction failed" carrying the text of that
\* exception; nothing is left unhandled and no prediction is returned.
C8_ScoringFailureIs500 ==
    (pc = "done" /\ ~NoCallRaised) =>
        /\ response.status = 500
        /\ response.kind = "HTTPException"
        /\ response.detail = "Model prediction failed"
        /\ calls[Len(calls)].raised
        /\ response.cause = calls[Len(calls)].cause
        /\ response.cause # ""
        /\ Results = <<>>

\* predict_proba raising after predict returned, on the batch endpoint.
C8_Witness ==
    /\ Handled("/predict")
    /\ Len(calls) = 2
    /\ ~calls[1].raised
    /\ calls[2].raised
    /\ response.status = 500

\* Some operation returned a number of rows other than the table's.
RowCountBroken ==
    \E k \in 1..Len(calls) :
        ~calls[k].raised /\ Len(calls[k].value) # Len(calls[k].table.rows)

\* C9: when the capability returns a number of labels or of pairs other than
\* the number of rows it was given, the request ends with the HTTPException
\* 500 "Model prediction failed".
C9_RowCountEnforced ==
    (pc = "done" /\ RowCountBroken) =>
        /\ response.status = 500
        /\ response.kind = "HTTPException"
        /\ response.detail = "Model prediction failed"

\* Every schema field is present in the body and within its bounds.
WithinSchema(body) ==
    \A f \in FeatureSet :
        /\ f \in DOMAIN body.val
        /\ PatientFeatures[f].ge <= body.val[f]
        /\ body.val[f] <= PatientFeatures[f].le

\* C10: POST /predict/single invokes the capability exactly for the bodies
\* that hold all 13 schema fields, each within its inclusive bounds; any
\* other body is answered 422 naming exactly the offending fields, with no
\* invocation.
C10_StrictValidation ==
    Handled("/predict/single") =>
        /\ Cardinality(FeatureSet) = 13
        /\ calls # <<>> <=> WithinSchema(request.patient)
        /\ ~WithinSchema(request.patient) =>
             /\ response.status = 422
             /\ response.kind = "RequestValidationError"
             /\ {response.errors[i].loc : i \in 1..Len(response.errors)} =
                  {f \in FeatureSet :
                     \/ f \notin DOMAIN request.patient.val
                     \/ request.patient.val[f] < PatientFeatures[f].ge
                     \/ request.patient.val[f] > PatientFeatures[f].le}

\* The record with age = 150 rejected without scoring.
C10_Witness ==
    /\ Handled("/predict/single")
    /\ "age" \in DOMAIN request.patient.val
    /\ request.patient.val["age"] = 150
    /\ response.status = 422
    /\ calls = <<>>

\* C11: for a body within the strict schema and a capability that raises
\* nothing, POST /predict/single answers 200 with a bare PredictionResult
\* (no predictions list, no count) equal to the one element of predictions
\* that POST /predict returns for the one-instance batch of the same record,
\* with and without predict_proba.
C11_SingleEqualsBatchOfOne ==
    (Handled("/predict/single") /\ WithinSchema(request.patient) /\ NoCallRaised) =>
        LET batch == predict(model, <<request.patient>>).response
        IN  /\ response.status = 200
            /\ response.kind = "PredictionResult"
            /\ DOMAIN response =
                 {"status", "kind", "prediction", "probability", "diagnosis"}
            /\ batch.status = 200
            /\ batch.kind = "PredictResponse"
            /\ batch.count = 1
            /\ Len(batch.predictions) = 1
            /\ batch.predictions[1] = Results[1]

\* The strict endpoint answering 200 from a capability with predict_proba.
C11_Witness ==
    /\ Handled("/predict/single")
    /\ response.status = 200
    /\ HasPredictProba(model)
    /\ Len(calls) = 2
    /\ response.probability = calls[2].value[1]

\* C12: GET /health is answered 200 with status, model_loaded and
\* model_path for every value of DATABASE_URL, get_database_info raising for
\* none of them; when the variable is not set or empty the response reports
\* database_type "Not Configured" and database_location "Unknown".
C12_HealthNeverFails ==
    Handled("/health") =>
        /\ ~get_database_info(request.DATABASE_URL).raised
        /\ response.status = 200
        /\ response.kind = "health"
        /\ {"status", "model_loaded", "model_path", "database_type",
            "database_location"} \subseteq DOMAIN response.body
        /\ response.body.status = "healthy"
        /\ response.body.model_loaded = "True"
        /\ response.body.model_path = MODEL_PATH
        /\ (request.DATABASE_URL = None \/ request.DATABASE_URL = Str(<<>>)) =>
             /\ response.body.database_type = "Not Configured"
             /\ response.body.database_location = "Unknown"
        /\ (request.DATABASE_URL # None /\ request.DATABASE_URL # Str(<<>>)) =>
             response.body.database_type = "PostgreSQL"

\* The health check answered with DATABASE_URL not set.
C12_Witness ==
    /\ Handled("/health")
    /\ request.DATABASE_URL = None
    /\ response.status = 200
    /\ response.body.database_type = "Not Configured"

ArtifactLoads == artifact.exists /\ artifact.loads

\* C13: with the artifact missing or failing to unpickle the process never
\* gets past its import: it is importing or has crashed, no model is bound
\* and no request of any route has been taken or answered; the process
\* crashes for no other reason; and whenever the service is up or handling a
\* request the model bound is the one that was loaded from the artifact.
C13_NoServingWithoutModel ==
    /\ ~ArtifactLoads =>
         /\ pc \in {"import", "crashed"}
         /\ model = NoModel
         /\ request = NoRequest
         /\ response = NoResponse
    /\ pc = "crashed" => ~ArtifactLoads
    /\ (pc \in {"idle", "done"} \/ request # NoRequest) =>
         /\ ArtifactLoads
         /\ model # NoModel
         /\ model.loaded
         /\ model = artifact.m

\* The import failed on a file that is there but does not unpickle.
C13_Witness ==
    /\ pc = "crashed"
    /\ artifact.exists
    /\ ~artifact.loads
    /\ request = NoRequest

\* The number of invocations of op in the request.
Invocations(op) == Cardinality({k \in 1..Len(calls) : calls[k].op = op})

\* C14: a request invokes predict at most once and predict_proba at most
\* once, predict first; an invocation that raised is the last one of the
\* request (predict_proba is never called after predict raised) and the
\* request is answered 500 at once.
C14_NoRetry ==
    pc = "done" =>
        /\ Invocations("predict") <= 1
        /\ Invocations("predict_proba") <= 1
        /\ Len(calls) = Invocations("predict") + Invocations("predict_proba")
        /\ calls # <<>> => calls[1].op = "predict"
        /\ \A k \in 1..Len(calls) : calls[k].raised => k = Len(calls)
        /\ (calls # <<>> /\ calls[1].raised) => Invocations("predict_proba") = 0
        /\ ~NoCallRaised => response.status = 500

\* predict raised in a capability that has predict_proba: one invocation.
C14_Witness ==
    /\ Handled("/predict")
    /\ HasPredictProba(model)
    /\ Len(calls) = 1
    /\ calls[1].raised
    /\ response.status = 500

\* What the service answers to a request when the model bound is m and
\* nothing else bears on the answer.
Served(m, req) ==
    IF req.endpoint = "/predict" THEN predict(m, req.instances)
    ELSE IF req.endpoint = "/predict/single" THEN PostPredictSingle(m, req.patient)
    ELSE IF req.endpoint = "/health"
    THEN Outcome(NoFrame, <<>>, health(m, req.DATABASE_URL))
    ELSE Outcome(NoFrame, <<>>, root)

C16_ErrorAbortsOnlyRequest ==
    /\ [][(pc \in {"idle", "done"}) =>
            /\ pc' \in {"idle", "done"}
            /\ model' = model
            /\ artifact' = artifact
            /\ (pc = "done" /\ response.status >= 400) => pc' = "idle"]_vars
    /\ [](pc = "done" /\ failed =>
            /\ model = artifact.m
            /\ response = Served(artifact.m, request).response)

\* A batch answered 200 after an earlier request had been answered an error.
C16_Witness ==
    /\ Handled("/predict")
    /\ failed
    /\ response.status = 200
    /\ model = artifact.m

\* C17: every row of every table handed to the capability by POST /predict
\* holds a value for exactly the schema names, the value its own instance
\* supplied.
C17_RowsComplete ==
    (Handled("/predict") /\ calls # <<>>) =>
        \A k \in 1..Len(calls) :
            \A i \in 1..Len(calls[k].table.rows) :
                /\ DOMAIN calls[k].table.rows[i] = FeatureSet
                /\ calls[k].table.rows[i] = Supplied(request.instances[i])

\* C18: a batch whose instances all carry every required feature reaches the
\* capability with the values as given, whatever their size; an instance
\* outside the PatientFeatures bounds that is so scored is answered 422 with
\* no invocation when sent to POST /predict/single.
C18_BatchNotRangeChecked ==
    (Handled("/predict") /\ request.instances # <<>>
       /\ \A i \in 1..Len(request.instances) : Complete(request.instances[i])) =>
        /\ calls # <<>>
        /\ response.status # 400
        /\ \A i \in 1..Len(request.instances) :
             /\ calls[1].table.rows[i] = Supplied(request.instances[i])
             /\ ~WithinSchema(request.instances[i]) =>
                  LET strict == PostPredictSingle(model, request.instances[i])
                  IN  strict.response.status = 422 /\ strict.calls = <<>>

\* A batch holding age = 150 scored with that value in the table.
C18_Witness ==
    /\ Handled("/predict")
    /\ response.status = 200
    /\ "age" \in DOMAIN request.instances[1].val
    /\ request.instances[1].val["age"] = 150
    /\ calls[1].table.rows[1]["age"] = 150

====
